---- MODULE Spec2Model ----
(***************************************************************************)
(* Wine Origin Predictor API (src/api/main.py).                            *)
(*                                                                         *)
(* The module-level try block loads five fitted artifacts one after the    *)
(* other and sets MODELS_LOADED; afterwards the application serves the      *)
(* handlers root, health_check and predict_wine_origin.  The handlers are  *)
(* `async def` without any await, so each one runs to completion on the    *)
(* event loop: one action per handler.  Requests that have arrived and     *)
(* await their handler are the in-flight messages of the model; they are   *)
(* handled in any order.                                                   *)
(*                                                                         *)
(* The fitted artifacts are pickles of library objects.  They are modelled *)
(* by what the handler uses of them: the fixed output width, the trained   *)
(* vocabulary / categories / statistics / classes, and the errors the      *)
(* library raises.  Probabilities are fixed-point numbers, ProbOne being   *)
(* the probability 1.0.                                                    *)
(***************************************************************************)
EXTENDS Integers, Sequences, FiniteSets, TLC

VARIABLES
    pc,             \* "startup" while the module body runs, then "serving"
    loadIdx,        \* next joblib.load of the try block (1..5)
    globals,        \* module globals rf_model .. scaler (Unbound before the load)
    MODELS_LOADED,  \* module global; read by handlers only once pc = "serving"
    reqs            \* the requests of the run: not sent, in flight, or answered

vars == <<pc, loadIdx, globals, MODELS_LOADED, reqs>>

----------------------------------------------------------------------------
(* Bounds of the model *)

\* number of requests of a run
MaxRequests == 2

\* fixed-point resolution of a probability: 1.0 is 4 * ProbRes
ProbRes == 1

ProbOne == 4 * ProbRes

\* HTTP status codes
StatusOK == 200
StatusUnavailable == 503
StatusPredictionError == 500

----------------------------------------------------------------------------
(* Sequences of numbers, as numpy computes on them *)

RECURSIVE SumSeq(_)
SumSeq(s) == IF s = <<>> THEN 0 ELSE Head(s) + SumSeq(Tail(s))

Min2(a, b) == IF a <= b THEN a ELSE b

Zeros(n) == [i \in 1..n |-> 0]

\* number of occurrences of term t in the token sequence d
Count(d, t) == Cardinality({i \in 1..Len(d) : d[i] = t})

\* shapes of a + b: equal lengths add elementwise, a length-1 operand is
\* broadcast, anything else raises ValueError
Broadcastable(a, b) == Len(a) = Len(b) \/ Len(a) = 1 \/ Len(b) = 1

NumpyAdd(a, b) ==
    LET n == IF Len(a) >= Len(b) THEN Len(a) ELSE Len(b)
        at(s, i) == IF Len(s) = 1 THEN s[1] ELSE s[i]
    IN  [i \in 1..n |-> at(a, i) + at(b, i)]

\* variant: the last occurrence of the maximum
ArgMaxLast(v) ==
    CHOOSE i \in 1..Len(v) :
        /\ \A j \in 1..Len(v) : v[j] <= v[i]
        /\ \A j \in (i + 1)..Len(v) : v[j] < v[i]

\* np.argmax: index of the first occurrence of the maximum
ArgMax(v) ==
    CHOOSE i \in 1..Len(v) :
        /\ \A j \in 1..Len(v) : v[j] <= v[i]
        /\ \A j \in 1..(i - 1) : v[j] < v[i]

----------------------------------------------------------------------------
(* The fitted artifacts *)

ArtifactNames ==
    <<"rf_model", "xgb_model", "tfidf_vectorizer", "variety_encoder", "scaler">>

\* a module global that no assignment has bound yet
Unbound == [kind |-> "unbound"]

Bound(a) == a.kind # "unbound"

TheVectorizer ==
    [kind |-> "TfidfVectorizer", vocabulary_ |-> <<"cherry", "oak">>, idf_ |-> <<1, 2>>]

TheEncoder ==
    [kind |-> "OneHotEncoder", categories_ |-> <<"Merlot", "Syrah">>]

TheScaler ==
    [kind |-> "StandardScaler", mean_ |-> <<3, 1>>, scale_ |-> <<1, 2>>]

\* V, C and the width of the feature row the classifiers are trained on
VocabSize == Len(TheVectorizer.vocabulary_)
NumCategories == Len(TheEncoder.categories_)
RowWidth == VocabSize + NumCategories + 2

Half == 2 * ProbRes

Countries == <<"France", "Italy", "US">>

\* A classifier: the ordered classes_, the row width it accepts, and a
\* deterministic map from rows to class distributions (one per leaf).
Classifier(kind, classes, width, seed, leaves) ==
    [kind |-> kind, classes_ |-> classes, n_features_in_ |-> width,
     seed |-> seed, leaves |-> leaves]

RFCountries ==
    Classifier("RandomForestClassifier", Countries, RowWidth, 0,
        << <<Half, Half, 0>>, <<ProbOne, 0, 0>>, <<0, Half, Half>> >>)

\* fitted on a single label
RFSingle ==
    Classifier("RandomForestClassifier", <<"France">>, RowWidth, 0, << <<ProbOne>> >>)

\* fitted on the label set of RFCountries, in the same order
XGBSame ==
    Classifier("XGBClassifier", Countries, RowWidth, 2,
        << <<0, ProbOne, 0>>, <<Half, Half, 0>>, <<Half, 0, Half>> >>)

\* the same labels in another order
XGBPermuted ==
    Classifier("XGBClassifier", <<"Italy", "France", "US">>, RowWidth, 2,
        << <<ProbOne, 0, 0>>, <<0, Half, Half>>, <<Half, 0, Half>> >>)

\* fewer labels
XGBFewer ==
    Classifier("XGBClassifier", <<"France", "Italy">>, RowWidth, 2,
        << <<Half, Half>>, <<ProbOne, 0>> >>)

XGBSingle ==
    Classifier("XGBClassifier", <<"France">>, RowWidth, 2, << <<ProbOne>> >>)

\* fitted on rows of another width
XGBWider ==
    Classifier("XGBClassifier", Countries, RowWidth + 1, 2,
        << <<0, ProbOne, 0>>, <<Half, Half, 0>> >>)

\* What MODEL_DIR may hold: the five pickles are files the program did not
\* write; nothing in it relates the two classifiers to each other.
Disks ==
    { [rf_model |-> pair[1], xgb_model |-> pair[2], tfidf_vectorizer |-> TheVectorizer,
       variety_encoder |-> TheEncoder, scaler |-> TheScaler]
      : pair \in ({RFCountries} \X {XGBSame, XGBPermuted, XGBFewer, XGBSingle, XGBWider})
                 \cup {<<RFSingle, XGBSame>>} }

NoGlobals == [n \in {ArtifactNames[i] : i \in 1..Len(ArtifactNames)} |-> Unbound]

----------------------------------------------------------------------------
(* Validated request bodies (WineInput) *)

Descriptions == { <<"cherry", "vanilla">>, <<"oak", "oak", "cherry">> }
Varieties == {"Syrah", "Zzz-Unknown-Grape-000"}
Prices == {0, 10000}
Points == {92}

\* values of time.time() - start_time, in ticks
PredictionTimes == {0, 1}

WineInputs ==
    [description : Descriptions, points : Points, price : Prices, variety : Varieties]

----------------------------------------------------------------------------
(* The library calls of the pipeline *)

\* tfidf_vectorizer.transform([description]).toarray(): one weight per
\* vocabulary term; terms outside the vocabulary contribute nothing
TfidfTransform(vec, description) ==
    [i \in 1..Len(vec.vocabulary_) |-> vec.idf_[i] * Count(description, vec.vocabulary_[i])]

KnownCategory(enc, variety) ==
    \E i \in 1..Len(enc.categories_) : enc.categories_[i] = variety

\* variety_encoder.transform([[variety]]) for a trained category
OneHot(enc, variety) ==
    [i \in 1..Len(enc.categories_) |-> IF enc.categories_[i] = variety THEN 1 ELSE 0]

\* variety_encoder.get_feature_names_out(['variety']).shape[0]
FeatureNamesOutCount(enc) == Len(enc.categories_)

\* scaler.transform([row]): (x - mean) / scale per column, columns in the
\* order given
ScalerTransform(sc, row) ==
    [i \in 1..Len(row) |-> (row[i] - sc.mean_[i]) \div sc.scale_[i]]

\* model.predict_proba(X)[0] for a row of the accepted width
LeafIndex(model, X) ==
    (SumSeq([i \in 1..Len(X) |-> (i + model.seed) * X[i]]) % Len(model.leaves)) + 1

PredictProba(model, X) == model.leaves[LeafIndex(model, X)]

AcceptsRow(model, X) == Len(X) = model.n_features_in_

----------------------------------------------------------------------------
(* predict_wine_origin, statement by statement.  A step takes the locals   *)
(* so far and returns them extended, or with the exception it raised; once *)
(* an exception is pending the remaining steps of the try block are        *)
(* skipped.                                                                *)

NoLocals ==
    [err |-> "", at |-> "", steps |-> <<>>, X_text |-> <<>>, X_variety |-> <<>>,
     X_numerical |-> <<>>, X |-> <<>>, rf_pred_proba |-> <<>>, xgb_pred_proba |-> <<>>,
     avg_proba |-> <<>>, predicted_idx |-> 0, countries |-> <<>>,
     fed_rf |-> <<>>, fed_xgb |-> <<>>]

Raise(st, step, exc) ==
    [st EXCEPT !.err = exc, !.at = step, !.steps = Append(@, step)]

Ran(st, step) == [st EXCEPT !.steps = Append(@, step)]

\* X_text = tfidf_vectorizer.transform([wine.description]).toarray()
StepText(g, wine, st) ==
    IF st.err # "" THEN st
    ELSE IF ~Bound(g.tfidf_vectorizer) THEN Raise(st, "text", "NameError")
    ELSE Ran([st EXCEPT !.X_text = TfidfTransform(g.tfidf_vectorizer, wine.description)],
             "text")

\* variant: no except ValueError around the encoder
StepVarietyNoFallback(g, wine, st) ==
    IF st.err # "" THEN st
    ELSE IF ~Bound(g.variety_encoder) THEN Raise(st, "variety", "NameError")
    ELSE IF KnownCategory(g.variety_encoder, wine.variety)
         THEN Ran([st EXCEPT !.X_variety = OneHot(g.variety_encoder, wine.variety)],
                  "variety")
         ELSE Raise(st, "variety", "ValueError")

\* try: X_variety = variety_encoder.transform([[wine.variety]])
\* except ValueError: X_variety = np.zeros((1, <number of feature names>))
StepVariety(g, wine, st) ==
    IF st.err # "" THEN st
    ELSE IF ~Bound(g.variety_encoder) THEN Raise(st, "variety", "NameError")
    ELSE IF KnownCategory(g.variety_encoder, wine.variety)
         THEN Ran([st EXCEPT !.X_variety = OneHot(g.variety_encoder, wine.variety)],
                  "variety")
         ELSE Ran([st EXCEPT !.X_variety = Zeros(FeatureNamesOutCount(g.variety_encoder))],
                  "variety")

\* variant: the scaler is given (points, price)
StepNumericalTransposed(g, wine, st) ==
    IF st.err # "" THEN st
    ELSE IF ~Bound(g.scaler) THEN Raise(st, "numerical", "NameError")
    ELSE Ran([st EXCEPT !.X_numerical = ScalerTransform(g.scaler, <<wine.points, wine.price>>)],
             "numerical")

\* X_numerical = scaler.transform([[wine.price, wine.points]])
StepNumerical(g, wine, st) ==
    IF st.err # "" THEN st
    ELSE IF ~Bound(g.scaler) THEN Raise(st, "numerical", "NameError")
    ELSE Ran([st EXCEPT !.X_numerical = ScalerTransform(g.scaler, <<wine.price, wine.points>>)],
             "numerical")

\* X = np.hstack([X_text, X_variety, X_numerical])
StepStack(g, wine, st) ==
    IF st.err # "" THEN st
    ELSE Ran([st EXCEPT !.X = st.X_text \o st.X_variety \o st.X_numerical], "hstack")

\* rf_pred_proba = rf_model.predict_proba(X)[0]
StepRF(g, wine, st) ==
    IF st.err # "" THEN st
    ELSE IF ~Bound(g.rf_model) THEN Raise(st, "rf", "NameError")
    ELSE IF ~AcceptsRow(g.rf_model, st.X)
         THEN Raise([st EXCEPT !.fed_rf = st.X], "rf", "ValueError")
    ELSE Ran([st EXCEPT !.rf_pred_proba = PredictProba(g.rf_model, st.X),
                        !.fed_rf = st.X], "rf")

\* xgb_pred_proba = xgb_model.predict_proba(X)[0]
StepXGB(g, wine, st) ==
    IF st.err # "" THEN st
    ELSE IF ~Bound(g.xgb_model) THEN Raise(st, "xgb", "NameError")
    ELSE IF ~AcceptsRow(g.xgb_model, st.X)
         THEN Raise([st EXCEPT !.fed_xgb = st.X], "xgb", "ValueError")
    ELSE Ran([st EXCEPT !.xgb_pred_proba = PredictProba(g.xgb_model, st.X),
                        !.fed_xgb = st.X], "xgb")

\* avg_proba = (rf_pred_proba + xgb_pred_proba) / 2
StepAverage(g, wine, st) ==
    IF st.err # "" THEN st
    ELSE IF ~Broadcastable(st.rf_pred_proba, st.xgb_pred_proba)
         THEN Raise(st, "average", "ValueError")
    ELSE LET sum == NumpyAdd(st.rf_pred_proba, st.xgb_pred_proba)
         IN  Ran([st EXCEPT !.avg_proba = [i \in 1..Len(sum) |-> sum[i] \div 2]],
                 "average")

\* predicted_idx = np.argmax(avg_proba)
StepArgMax(g, wine, st) ==
    IF st.err # "" THEN st
    ELSE Ran([st EXCEPT !.predicted_idx = ArgMax(st.avg_proba)], "argmax")

\* countries = rf_model.classes_
StepCountries(g, wine, st) ==
    IF st.err # "" THEN st
    ELSE Ran([st EXCEPT !.countries = g.rf_model.classes_], "countries")

\* countries[predicted_idx], evaluated for the response
StepLabel(g, wine, st) ==
    IF st.err # "" THEN st
    ELSE IF st.predicted_idx > Len(st.countries) THEN Raise(st, "label", "IndexError")
    ELSE Ran(st, "label")

\* the body of the try block, lines 122-162
Pipeline(g, wine) ==
    LET s1 == StepText(g, wine, NoLocals)
        s2 == StepVariety(g, wine, s1)
        s3 == StepNumerical(g, wine, s2)
        s4 == StepStack(g, wine, s3)
        s5 == StepRF(g, wine, s4)
        s6 == StepXGB(g, wine, s5)
        s7 == StepAverage(g, wine, s6)
        s8 == StepArgMax(g, wine, s7)
        s9 == StepCountries(g, wine, s8)
    IN  StepLabel(g, wine, s9)

\* {country: float(score) for country, score in zip(countries, avg_proba)}:
\* zip stops at the shorter sequence; a repeated key keeps its last value
ConfidenceScores(countries, avg_proba) ==
    LET n == Min2(Len(countries), Len(avg_proba))
        last(c) == CHOOSE i \in 1..n :
                       /\ countries[i] = c
                       /\ \A j \in (i + 1)..n : countries[j] # c
    IN  [c \in {countries[i] : i \in 1..n} |-> avg_proba[last(c)]]

\* variant: the handler does not look at the flag
RefusesNever(loaded) == FALSE

\* if not MODELS_LOADED
Refuses(loaded) == ~loaded

\* raise HTTPException(status_code=503, ...)
UnavailableResponse ==
    [status_code |-> StatusUnavailable,
     detail |-> "Models not loaded. Please check server logs."]

\* variant: the failure response carries what was computed so far
ErrorResponsePartial(st) ==
    [status_code |-> StatusPredictionError, detail |-> <<"Prediction error", st.err>>,
     confidence_scores |-> st.rf_pred_proba]

\* except Exception as e: raise HTTPException(status_code=500, ...)
ErrorResponse(st) ==
    [status_code |-> StatusPredictionError, detail |-> <<"Prediction error", st.err>>]

\* return PredictionResponse(...)
PredictionResponse(st, elapsed) ==
    [status_code |-> StatusOK,
     predicted_country |-> st.countries[st.predicted_idx],
     confidence_scores |-> ConfidenceScores(st.countries, st.avg_proba),
     prediction_time |-> elapsed,
     model_version |-> "1.0.0"]

\* the whole handler: its response and the locals it computed
Predict(g, loaded, wine, elapsed) ==
    IF Refuses(loaded)
    THEN [response |-> UnavailableResponse, locals |-> NoLocals]
    ELSE LET st == Pipeline(g, wine)
         IN  IF st.err # ""
             THEN [response |-> ErrorResponse(st), locals |-> st]
             ELSE [response |-> PredictionResponse(st, elapsed), locals |-> st]

----------------------------------------------------------------------------
(* Startup: the module-level try block, lines 58-72 *)

RequestIds == 1..MaxRequests

Init ==
    /\ pc = "startup"
    /\ loadIdx = 1
    /\ globals = NoGlobals
    /\ MODELS_LOADED = FALSE
    /\ reqs = [id \in RequestIds |-> [state |-> "new"]]

\* one joblib.load succeeds and binds its global to what the file holds
LoadArtifact ==
    /\ pc = "startup"
    /\ loadIdx <= Len(ArtifactNames)
    /\ \E d \in Disks :
         /\ \A j \in 1..(loadIdx - 1) : globals[ArtifactNames[j]] = d[ArtifactNames[j]]
         /\ globals' = [globals EXCEPT ![ArtifactNames[loadIdx]] = d[ArtifactNames[loadIdx]]]
    /\ loadIdx' = loadIdx + 1
    /\ UNCHANGED <<pc, MODELS_LOADED, reqs>>

\* MODELS_LOADED = True, after the fifth load
SetLoaded ==
    /\ pc = "startup"
    /\ loadIdx = Len(ArtifactNames) + 1
    /\ MODELS_LOADED' = TRUE
    /\ pc' = "serving"
    /\ UNCHANGED <<loadIdx, globals, reqs>>

\* variant: the except branch logs and carries on as loaded
OnLoadErrorIgnored == TRUE

\* value given to MODELS_LOADED by the except branch
OnLoadError == FALSE

\* os.makedirs or a joblib.load raises (file missing, unreadable, not a
\* pickle): the except branch runs, the globals bound so far stay bound
LoadError ==
    /\ pc = "startup"
    /\ loadIdx <= Len(ArtifactNames)
    /\ MODELS_LOADED' = OnLoadError
    /\ pc' = "serving"
    /\ UNCHANGED <<loadIdx, globals, reqs>>

----------------------------------------------------------------------------
(* Serving *)

\* a POST /predict whose body passed WineInput validation arrives
SubmitPredict(id, wine) ==
    /\ pc = "serving"
    /\ reqs[id].state = "new"
    /\ \A j \in 1..(id - 1) : reqs[j].state # "new"
    /\ reqs' = [reqs EXCEPT ![id] = [state |-> "pending", path |-> "/predict", wine |-> wine]]
    /\ UNCHANGED <<pc, loadIdx, globals, MODELS_LOADED>>

\* a GET / or GET /health arrives
SubmitGet(id, path) ==
    /\ pc = "serving"
    /\ reqs[id].state = "new"
    /\ \A j \in 1..(id - 1) : reqs[j].state # "new"
    /\ reqs' = [reqs EXCEPT ![id] = [state |-> "pending", path |-> path]]
    /\ UNCHANGED <<pc, loadIdx, globals, MODELS_LOADED>>

\* variant: the handler refits the scaler on the row it scales
predict_wine_origin_refit(id) ==
    /\ pc = "serving"
    /\ reqs[id].state = "pending"
    /\ reqs[id].path = "/predict"
    /\ \E elapsed \in PredictionTimes :
         LET out == Predict(globals, MODELS_LOADED, reqs[id].wine, elapsed)
         IN  reqs' = [reqs EXCEPT ![id] =
                        [state |-> "done", path |-> "/predict", wine |-> reqs[id].wine,
                         response |-> out.response, locals |-> out.locals]]
    /\ globals' = IF MODELS_LOADED
                  THEN [globals EXCEPT !.scaler.mean_ =
                            <<reqs[id].wine.price, reqs[id].wine.points>>]
                  ELSE globals
    /\ UNCHANGED <<pc, loadIdx, MODELS_LOADED>>

\* POST /predict
predict_wine_origin(id) ==
    /\ pc = "serving"
    /\ reqs[id].state = "pending"
    /\ reqs[id].path = "/predict"
    /\ \E elapsed \in PredictionTimes :
         LET out == Predict(globals, MODELS_LOADED, reqs[id].wine, elapsed)
         IN  reqs' = [reqs EXCEPT ![id] =
                        [state |-> "done", path |-> "/predict", wine |-> reqs[id].wine,
                         response |-> out.response, locals |-> out.locals]]
    /\ UNCHANGED <<pc, loadIdx, globals, MODELS_LOADED>>

\* GET /health
health_check(id) ==
    /\ pc = "serving"
    /\ reqs[id].state = "pending"
    /\ reqs[id].path = "/health"
    /\ reqs' = [reqs EXCEPT ![id] =
                  [state |-> "done", path |-> "/health",
                   response |-> [status |-> IF MODELS_LOADED THEN "healthy" ELSE "unhealthy",
                                 models_loaded |-> MODELS_LOADED]]]
    /\ UNCHANGED <<pc, loadIdx, globals, MODELS_LOADED>>

\* GET /
root(id) ==
    /\ pc = "serving"
    /\ reqs[id].state = "pending"
    /\ reqs[id].path = "/"
    /\ reqs' = [reqs EXCEPT ![id] =
                  [state |-> "done", path |-> "/",
                   response |-> [status |-> IF MODELS_LOADED THEN "Models loaded"
                                            ELSE "Models not loaded"]]]
    /\ UNCHANGED <<pc, loadIdx, globals, MODELS_LOADED>>

Next ==
    \/ LoadArtifact
    \/ SetLoaded
    \/ LoadError
    \/ \E id \in RequestIds, wine \in WineInputs : SubmitPredict(id, wine)
    \/ \E id \in RequestIds, path \in {"/", "/health"} : SubmitGet(id, path)
    \/ \E id \in RequestIds : predict_wine_origin(id)
    \/ \E id \in RequestIds : health_check(id)
    \/ \E id \in RequestIds : root(id)

Spec == Init /\ [][Next]_vars

----------------------------------------------------------------------------
(* Properties *)

\* request id is an answered POST /predict
Answered(id) == reqs[id].state = "done" /\ reqs[id].path = "/predict"

\* answered with a PredictionResponse
Served(id) == Answered(id) /\ reqs[id].response.status_code = StatusOK

\* the try block of the handler was entered and an exception left it
Failed(id) == Answered(id) /\ reqs[id].locals.err # ""

AllBound == \A i \in 1..Len(ArtifactNames) : Bound(globals[ArtifactNames[i]])

\* a load of the try block raised
LoadFailed == pc = "serving" /\ loadIdx <= Len(ArtifactNames)

UnknownVariety(id) ==
    /\ Answered(id)
    /\ Bound(globals.variety_encoder)
    /\ ~KnownCategory(globals.variety_encoder, reqs[id].wine.variety)

IndexOf(seq, x) == CHOOSE i \in 1..Len(seq) : seq[i] = x

HasLabel(classes, x) == \E i \in 1..Len(classes) : classes[i] = x

\* probability a classifier's distribution gives to a label (0 if the
\* classifier was not trained on it)
ProbOf(classes, proba, label) ==
    IF HasLabel(classes, label) THEN proba[IndexOf(classes, label)] ELSE 0

RECURSIVE SumValues(_, _)
SumValues(f, S) ==
    IF S = {} THEN 0
    ELSE LET c == CHOOSE x \in S : TRUE IN f[c] + SumValues(f, S \ {c})

NoRepeat(seq) == \A i, j \in 1..Len(seq) : seq[i] = seq[j] => i = j

\* ---- C1 ----
\* C1: a predict request is processed only when all five artifacts were
\* loaded; while MODELS_LOADED is false every answered predict request ran no
\* pipeline step and got the 503 response, which differs from the 500 one.
C1_RefusedUnlessLoaded ==
    /\ StatusUnavailable # StatusPredictionError
    /\ \A id \in RequestIds :
         /\ (Answered(id) /\ reqs[id].locals.steps # <<>>) => (MODELS_LOADED /\ AllBound)
         /\ (Answered(id) /\ ~MODELS_LOADED) =>
               /\ reqs[id].response = UnavailableResponse
               /\ reqs[id].response.status_code = StatusUnavailable
               /\ reqs[id].locals = NoLocals

C1_Witness ==
    \E id \in RequestIds : Answered(id) /\ ~MODELS_LOADED /\ Bound(globals.rf_model)

\* ---- C2 ----
\* C2: when any of the five loads raises, whichever it is, MODELS_LOADED is
\* false once serving starts; while serving, the flag, the globals and the
\* load position never change again, and every answered predict request was
\* refused with 503.
C2_UnreadyUntilRestart ==
    /\ [](LoadFailed =>
            /\ ~MODELS_LOADED
            /\ \A id \in RequestIds :
                 Answered(id) => reqs[id].response.status_code = StatusUnavailable)
    /\ [][pc = "serving" =>
            /\ pc' = "serving"
            /\ MODELS_LOADED' = MODELS_LOADED
            /\ loadIdx' = loadIdx
            /\ globals' = globals]_vars

C2_Witness ==
    /\ LoadFailed
    /\ loadIdx = Len(ArtifactNames)
    /\ \A id \in RequestIds : Answered(id)

C4_ArgMaxFirst ==
    \A id \in RequestIds :
        Served(id) =>
            LET cs == reqs[id].response.confidence_scores
                p  == reqs[id].response.predicted_country
                classes == globals.rf_model.classes_
            IN  /\ p \in DOMAIN cs
                /\ \A c \in DOMAIN cs : cs[c] <= cs[p]
                /\ \A c \in DOMAIN cs :
                      cs[c] = cs[p] => IndexOf(classes, p) <= IndexOf(classes, c)

C4_Witness ==
    \E id \in RequestIds :
        /\ Served(id)
        /\ globals.xgb_model.classes_ = globals.rf_model.classes_
        /\ \E c \in DOMAIN reqs[id].response.confidence_scores :
              /\ c # reqs[id].response.predicted_country
              /\ reqs[id].response.confidence_scores[c]
                    = reqs[id].response.confidence_scores[reqs[id].response.predicted_country]

\* ---- C5 ----
\* C5: whenever both classifiers returned distributions that sum to 1, the
\* values of confidence_scores sum to 1 and each lies in [0, 1].
C5_AverageSumsToOne ==
    \A id \in RequestIds :
        (/\ Served(id)
         /\ SumSeq(reqs[id].locals.rf_pred_proba) = ProbOne
         /\ SumSeq(reqs[id].locals.xgb_pred_proba) = ProbOne) =>
            LET cs == reqs[id].response.confidence_scores
            IN  /\ SumValues(cs, DOMAIN cs) = ProbOne
                /\ \A c \in DOMAIN cs : 0 <= cs[c] /\ cs[c] <= ProbOne

\* ---- C6 ----
\* C6: confidence_scores has one key per class of rf_model, predicted_country
\* is one of them, and the value of each label is the mean of the
\* probabilities rf_model and xgb_model gave to that label.
C6_MeanPerLabel ==
    \A id \in RequestIds :
        Served(id) =>
            LET cs == reqs[id].response.confidence_scores
                loc == reqs[id].locals
            IN  /\ Cardinality(DOMAIN cs) = Len(globals.rf_model.classes_)
                /\ reqs[id].response.predicted_country \in DOMAIN cs
                /\ \A label \in DOMAIN cs :
                      2 * cs[label] =
                          ProbOf(globals.rf_model.classes_, loc.rf_pred_proba, label)
                          + ProbOf(globals.xgb_model.classes_, loc.xgb_pred_proba, label)

\* ---- C7 ----
\* C7: the row given to the classifiers is the text vector (length V), then
\* the category vector (length C, encoded or zeros), then the scaler's output
\* for (price, points); it has V + C + 2 entries and both classifiers get
\* the same row.
C7_RowLayout ==
    \A id \in RequestIds :
        (Answered(id) /\ reqs[id].locals.fed_rf # <<>>) =>
            LET loc  == reqs[id].locals
                wine == reqs[id].wine
                V    == Len(globals.tfidf_vectorizer.vocabulary_)
                C    == FeatureNamesOutCount(globals.variety_encoder)
                row  == loc.fed_rf
            IN  /\ Len(row) = V + C + 2
                /\ SubSeq(row, 1, V) = TfidfTransform(globals.tfidf_vectorizer, wine.description)
                /\ SubSeq(row, V + 1, V + C) =
                      IF KnownCategory(globals.variety_encoder, wine.variety)
                      THEN OneHot(globals.variety_encoder, wine.variety)
                      ELSE Zeros(C)
                /\ row[V + C + 1] = (wine.price - globals.scaler.mean_[1])
                                        \div globals.scaler.scale_[1]
                /\ row[V + C + 2] = (wine.points - globals.scaler.mean_[2])
                                        \div globals.scaler.scale_[2]
                /\ loc.fed_xgb # <<>> => loc.fed_xgb = row

C7_Witness ==
    \E id \in RequestIds :
        /\ Served(id)
        /\ reqs[id].locals.fed_xgb = reqs[id].locals.fed_rf
        /\ reqs[id].wine.price # reqs[id].wine.points
        /\ KnownCategory(globals.variety_encoder, reqs[id].wine.variety)

\* ---- C8 ----
\* C8: a request whose pipeline raised is answered with the 500 response
\* carrying the exception text and nothing else (no predicted_country, no
\* confidence_scores); no step ran twice and the failing step was the last;
\* handling any request leaves MODELS_LOADED and the globals as they were,
\* and every other request is still processed, not refused.
C8_GenericFailure ==
    /\ [](\A id \in RequestIds :
            Failed(id) =>
                /\ reqs[id].response.status_code = StatusPredictionError
                /\ DOMAIN reqs[id].response = {"status_code", "detail"}
                /\ reqs[id].response.detail = <<"Prediction error", reqs[id].locals.err>>
                /\ NoRepeat(reqs[id].locals.steps)
                /\ reqs[id].locals.steps[Len(reqs[id].locals.steps)] = reqs[id].locals.at
                /\ MODELS_LOADED
                /\ \A other \in RequestIds :
                      Answered(other) =>
                          /\ reqs[other].response.status_code # StatusUnavailable
                          /\ reqs[other].locals.steps # <<>>)
    /\ [][pc = "serving" => (MODELS_LOADED' = MODELS_LOADED /\ globals' = globals)]_vars

C8_Witness ==
    \E id, other \in RequestIds :
        /\ id < other
        /\ Failed(id)
        /\ reqs[id].locals.at = "xgb"
        /\ reqs[id].locals.err = "ValueError"
        /\ Answered(other)

\* ---- C9 ----
\* C9: handling a request changes neither the globals nor MODELS_LOADED, and
\* any two answered predict requests with the same body got the same status,
\* predicted_country and confidence_scores, in whatever order they were
\* handled.
SameOutcome(r1, r2) ==
    /\ r1.status_code = r2.status_code
    /\ r1.status_code = StatusOK =>
          /\ r1.predicted_country = r2.predicted_country
          /\ r1.confidence_scores = r2.confidence_scores
    /\ r1.status_code # StatusOK => r1 = r2

C9_Idempotent ==
    /\ [](\A i, j \in RequestIds :
            (Answered(i) /\ Answered(j) /\ reqs[i].wine = reqs[j].wine) =>
                SameOutcome(reqs[i].response, reqs[j].response))
    /\ [][\A id \in RequestIds :
            (reqs[id].state = "pending" /\ reqs'[id].state = "done") =>
                /\ globals' = globals
                /\ MODELS_LOADED' = MODELS_LOADED
                /\ \A k \in RequestIds \ {id} : reqs'[k] = reqs[k]]_vars

C9_Witness ==
    \E i, j \in RequestIds :
        /\ i # j
        /\ Served(i) /\ Served(j)
        /\ reqs[i].wine = reqs[j].wine
        /\ reqs[i].response.prediction_time # reqs[j].response.prediction_time

\* ---- C10 ----
\* C10: if rf_model and xgb_model carry different class label sequences,
\* startup ends unready and no prediction is served.
C10_LabelSetsChecked ==
    (/\ pc = "serving"
     /\ Bound(globals.rf_model)
     /\ Bound(globals.xgb_model)
     /\ globals.rf_model.classes_ # globals.xgb_model.classes_) =>
        /\ ~MODELS_LOADED
        /\ \A id \in RequestIds : ~Served(id)

====
